---- MODULE Spec2Model ----
(***************************************************************************)
(* BTCDayTrader (src/main.py): the flat/long position state machine, its   *)
(* order sizing, the execution gateway and the scheduler loop.             *)
(*                                                                         *)
(* Units.  Quote amounts (USDT) are integers in cents, base amounts (BTC)  *)
(* are integers in 10^-6 BTC (the precision of round(x, 6)), prices are    *)
(* integers in USDT, percentages are integers in percent.  Python floats   *)
(* are modelled by exact rationals; the inputs below avoid rounding ties.  *)
(*                                                                         *)
(* A step of the model is the code between two blocking calls of the       *)
(* exchange connector (or sleeps): the connector's answer is the step's    *)
(* input.  The wall clock moves between steps.                             *)
(***************************************************************************)
EXTENDS Integers, Sequences, FiniteSets, TLC

(* ------------------------------ bounds -------------------------------- *)
\* Calendar dates are 0..MaxDay.
MaxDay == 2
\* A backtested series has at most MaxBars rows.
MaxBars == 4

(* ------------------------ configuration (defaults) -------------------- *)
max_daily_trades == 3
\* risk_per_trade = 0.05, in percent
risk_per_trade == 5
leverage == 3
\* take_profit_pct = 0.03 and stop_loss_pct = 0.01, in percent
take_profit_pct == 3
stop_loss_pct == 1
\* min_position_size = 10.0 USDT
min_position_size == 10
\* len(df) < 50
min_rows == 50

(* ------------------------------ values -------------------------------- *)
\* Python's None and a present value.
None == << >>
Some(v) == <<v>>
\* pandas' NaN in an indicator column: every comparison with it is false.
NaN == -999999
Min(a, b) == IF a <= b THEN a ELSE b
Abs(x) == IF x < 0 THEN -x ELSE x

\* Python's round(): n/d to the nearest integer, ties to even (n >= 0, d > 0).
round_trunc(n, d) == n \div d
round(n, d) ==
    LET q == n \div d
        r == n % d
    IN  IF 2 * r < d THEN q
        ELSE IF 2 * r > d THEN q + 1
        ELSE IF q % 2 = 0 THEN q ELSE q + 1

(* --------------------------- the connector ---------------------------- *)
\* Free USDT in cents: 0, 5, 40 and 100 USDT.
UsdtValues == {0, 500, 1000, 4000, 10000}
\* fetch_balance() as execute_buy reads it: balance['USDT']['free'], or the
\* alternative structure balance['total']['USDT'], or neither.
\* In every answer, raise: the call (or the reading of a malformed answer) raised.
BuyBalances ==
    {[raise |-> FALSE, usdt |-> TRUE, free |-> v, total |-> None] : v \in UsdtValues}
        \cup {[raise |-> FALSE, usdt |-> FALSE, free |-> 0, total |-> Some(v)] :
                  v \in {0, 4000}}
        \cup {[raise |-> r, usdt |-> FALSE, free |-> 0, total |-> None] :
                  r \in BOOLEAN}
\* ticker['last'], USDT.
Prices == {-1, 0, 30000, 70000}
Tickers == {[raise |-> FALSE, last |-> p] : p \in Prices}
               \cup {[raise |-> TRUE, last |-> 0]}
\* An order answer and the average fill price it reports: the quoted price plus
\* a slippage of 0 or 1 USDT.
Slippage == {0, 1}
Orders(quoted) == {[raise |-> FALSE, average |-> quoted + d] : d \in Slippage}
                      \cup {[raise |-> TRUE, average |-> 0]}
\* fetch_balance() as execute_sell reads it, in 10^-6 BTC: btc is
\* Some(balance['BTC']['free']), or None without a 'BTC' key.
SellBalances == {[raise |-> FALSE, btc |-> b] :
                    b \in {None, Some(0), Some(200), Some(500)}}
                    \cup {[raise |-> TRUE, btc |-> None]}

(* ----------------------------- candles -------------------------------- *)
\* One row of the indicator-annotated DataFrame.
Row(ema20, ema50, rsi, macd, macd_signal, bb_low, bb_high, close) ==
    [ema20 |-> ema20, ema50 |-> ema50, rsi |-> rsi, macd |-> macd,
     macd_signal |-> macd_signal, bb_low |-> bb_low, bb_high |-> bb_high,
     close |-> close]
NaNRow == Row(NaN, NaN, NaN, NaN, NaN, NaN, NaN, 0)
\* add_indicators on row i (from 0): a column is NaN until its window is full
\* (EMA 20 and 50, RSI 14, MACD 26 with a signal of 9, Bollinger 20).
Warm(value, i, first) == IF i >= first THEN value ELSE NaN
add_indicators(row, i) ==
    Row(Warm(row.ema20, i, 19), Warm(row.ema50, i, 49), Warm(row.rsi, i, 13),
        Warm(row.macd, i, 25), Warm(row.macd_signal, i, 33),
        Warm(row.bb_low, i, 19), Warm(row.bb_high, i, 19), row.close)
\* The DataFrame: is_none for None, len rows, and its last two rows.
DataFrame(len, prev, last) ==
    [is_none |-> FALSE, len |-> len,
     prev |-> add_indicators(prev, len - 2), last |-> add_indicators(last, len - 1)]
NoneDF == [is_none |-> TRUE, len |-> 0, prev |-> NaNRow, last |-> NaNRow]

\* Comparisons of floats that may be NaN.
LE(a, b) == a # NaN /\ b # NaN /\ a <= b
GE(a, b) == a # NaN /\ b # NaN /\ a >= b
LT(a, b) == a # NaN /\ b # NaN /\ a < b
GT(a, b) == a # NaN /\ b # NaN /\ a > b
Count(conds) == Cardinality({i \in DOMAIN conds : conds[i]})

signal_threshold_one(signal_count) == signal_count >= 1
signal_threshold(signal_count) == signal_count >= 2

check_buy_signals(df) ==
    IF df.is_none \/ df.len = 0 \/ df.len < min_rows THEN FALSE
    ELSE
        LET last_row == df.last
            prev_row == df.prev
            ema_crossover == LE(prev_row.ema20, prev_row.ema50)
                                /\ GT(last_row.ema20, last_row.ema50)
            rsi_condition == LE(prev_row.rsi, 30) /\ GT(last_row.rsi, 30)
            macd_crossover == LE(prev_row.macd, prev_row.macd_signal)
                                /\ GT(last_row.macd, last_row.macd_signal)
            bollinger_support ==
                /\ last_row.close # NaN /\ last_row.bb_low # NaN
                /\ last_row.close * 100 <= last_row.bb_low * 101
            signal_count == Count(<<ema_crossover, rsi_condition,
                                    macd_crossover, bollinger_support>>)
        IN  signal_threshold(signal_count)

\* check_sell_signals: the take-profit and stop-loss comparisons.
take_profit_strict(entry_price, close) ==
    close # NaN /\ close * 100 > entry_price * (100 + take_profit_pct)
take_profit_reached(entry_price, close) ==
    close # NaN /\ close * 100 >= entry_price * (100 + take_profit_pct)
stop_loss_strict(entry_price, close) ==
    close # NaN /\ close * 100 < entry_price * (100 - stop_loss_pct)
stop_loss_reached(entry_price, close) ==
    close # NaN /\ close * 100 <= entry_price * (100 - stop_loss_pct)

\* check_sell_signals: the early return, the only use of the state besides
\* entry_price.
no_sell_evaluation_when_capped(s, df) ==
    \/ df.is_none \/ df.len = 0 \/ df.len < min_rows \/ ~s.in_position
    \/ s.daily_trades >= max_daily_trades
no_sell_evaluation(s, df) ==
    df.is_none \/ df.len = 0 \/ df.len < min_rows \/ ~s.in_position

check_sell_signals(s, df) ==
    IF no_sell_evaluation(s, df) THEN FALSE
    ELSE
        LET last_row == df.last
            prev_row == df.prev
            ema_crossover == GE(prev_row.ema20, prev_row.ema50)
                                /\ LT(last_row.ema20, last_row.ema50)
            rsi_condition == LE(prev_row.rsi, 70) /\ GT(last_row.rsi, 70)
            macd_crossover == GE(prev_row.macd, prev_row.macd_signal)
                                /\ LT(last_row.macd, last_row.macd_signal)
            bollinger_resistance ==
                /\ last_row.close # NaN /\ last_row.bb_high # NaN
                /\ last_row.close * 100 >= last_row.bb_high * 99
            \* "self.entry_price and ...": None and 0 are falsy
            has_entry == s.entry_price # None /\ s.entry_price[1] # 0
            take_profit ==
                has_entry /\ take_profit_reached(s.entry_price[1], last_row.close)
            stop_loss ==
                has_entry /\ stop_loss_reached(s.entry_price[1], last_row.close)
            signal_count == Count(<<ema_crossover, rsi_condition,
                                    macd_crossover, bollinger_resistance>>)
        IN  IF take_profit THEN TRUE
            ELSE IF stop_loss THEN TRUE
            ELSE signal_threshold(signal_count)

\* Indicator rows the ticks are run on: a quiet market, and rows in which the
\* RSI and/or the MACD cross (upward for a buy, downward/overbought for a sell).
QuietRow(close) == Row(100, 100, 50, 0, 0, 1, 1000000, close)
BuyPrev(close) == Row(100, 100, 25, -1, 0, 1, 1000000, close)
BuyLast(close) == Row(100, 100, 35, 1, 0, 1, 1000000, close)
OneVoteLast(close) == Row(100, 100, 35, -1, 0, 1, 1000000, close)
SellPrev(close) == Row(100, 100, 65, 1, 0, 1, 1000000, close)
SellLast(close) == Row(100, 100, 75, -1, 0, 1, 1000000, close)
\* Closes: under the stop-loss of an entry at 30000, at either entry price
\* (between its own thresholds), at the take-profit of an entry at 70000.
Closes == {29000, 30000, 70000, 72100}
Lens == {0, 30, 50, 100}
TickFrames ==
    UNION {{DataFrame(n, QuietRow(c), QuietRow(c)),
            DataFrame(n, BuyPrev(c), BuyLast(c)),
            DataFrame(n, BuyPrev(c), OneVoteLast(c)),
            DataFrame(n, SellPrev(c), SellLast(c))} : n \in Lens, c \in Closes}

(* --------------------------- TradingState ------------------------------ *)
\* BTCDayTrader.__init__: "Estado del bot".
InitialState ==
    [in_position |-> FALSE, entry_price |-> None, position_size |-> None,
     daily_trades |-> 0, last_trade_date |-> None]

\* reset_daily_counters with the date date.today() returned.
reset_always(s, date_today) ==
    [s EXCEPT !.daily_trades = 0, !.last_trade_date = Some(date_today)]
reset_daily_counters(s, date_today) ==
    IF s.last_trade_date # Some(date_today)
    THEN [s EXCEPT !.daily_trades = 0, !.last_trade_date = Some(date_today)]
    ELSE s

\* run_trading_cycle's dispatch on a DataFrame with rows: which of
\* execute_sell / execute_buy it calls ("none": neither).
\* run_trading_cycle (and add_indicators): "if df is None or df.empty".
data_unavailable_none_only(df) == df.is_none
data_unavailable(df) == df.is_none \/ df.len = 0

\* run_trading_cycle: the detector a tick calls, from the state alone.
evaluated(s) ==
    IF s.in_position THEN "sell"
    ELSE IF s.daily_trades < max_daily_trades THEN "buy" ELSE "none"
dispatch_no_signal_check(s, df) ==
    IF s.in_position
    THEN IF check_sell_signals(s, df) THEN "sell" ELSE "none"
    ELSE IF s.daily_trades < max_daily_trades THEN "buy" ELSE "none"
dispatch_ignores_position(s, df) ==
    IF s.daily_trades < max_daily_trades /\ check_buy_signals(df) THEN "buy"
    ELSE IF s.in_position /\ check_sell_signals(s, df) THEN "sell"
    ELSE "none"
dispatch(s, df) ==
    IF s.in_position
    THEN IF check_sell_signals(s, df) THEN "sell" ELSE "none"
    ELSE IF s.daily_trades < max_daily_trades
         THEN IF check_buy_signals(df) THEN "buy" ELSE "none"
         ELSE "none"

\* execute_buy's early returns before the try block.
execute_buy_guard(s) == ~s.in_position /\ s.daily_trades < max_daily_trades

\* execute_buy: the free USDT read from the balance answer (cents).
usdt_balance_of(balance) ==
    IF balance.usdt THEN balance.free
    ELSE IF balance.total # None THEN balance.total[1]
    ELSE 0

\* execute_buy: "Si el balance es 0, no continuar".
no_funds_strict(usdt_balance) == usdt_balance < 0
no_funds(usdt_balance) == usdt_balance <= 0

\* execute_buy: position_size_usd (cents) from the balance (cents), for a
\* risk_per_trade of risk percent and a leverage of lev.
position_size_usd_with(usdt_balance, risk, lev) ==
    LET risk_amount_x100 == usdt_balance * risk
        \* cents * 100, to stay exact
        requested_x100 == risk_amount_x100 * lev
        minimum == min_position_size * 100
    IN  IF requested_x100 < minimum * 100
        THEN IF usdt_balance >= minimum THEN minimum ELSE requested_x100 \div 100
        ELSE requested_x100 \div 100
position_size_usd_never_clamps(usdt_balance) ==
    (usdt_balance * risk_per_trade * leverage) \div 100
position_size_usd_always_clamps(usdt_balance) ==
    LET requested == (usdt_balance * risk_per_trade * leverage) \div 100
    IN  IF requested < min_position_size * 100 THEN min_position_size * 100
        ELSE requested
position_size_usd_of(usdt_balance) ==
    position_size_usd_with(usdt_balance, risk_per_trade, leverage)

\* execute_buy: "Verificar que el precio sea mayor que cero".
price_invalid_zero_only(current_price) == current_price = 0
price_invalid(current_price) == current_price <= 0

\* execute_buy: round(position_size_usd / current_price, 6), in 10^-6 BTC.
position_size_btc_unrounded(position_size_usd, current_price) ==
    round_trunc(position_size_usd * 10000, current_price)
position_size_btc_of(position_size_usd, current_price) ==
    IF current_price > 0 THEN round(position_size_usd * 10000, current_price)
    ELSE -round(position_size_usd * 10000, -current_price)

\* execute_buy: "Actualizar el estado".
buy_commit_counts_twice(s, current_price, position_size_btc, date_today) ==
    [s EXCEPT !.in_position = TRUE, !.entry_price = Some(current_price),
              !.position_size = Some(position_size_btc),
              !.daily_trades = @ + 2, !.last_trade_date = Some(date_today)]
buy_commit(s, current_price, position_size_btc, date_today) ==
    [s EXCEPT !.in_position = TRUE, !.entry_price = Some(current_price),
              !.position_size = Some(position_size_btc),
              !.daily_trades = @ + 1, !.last_trade_date = Some(date_today)]

\* Whether the statements after create_market_buy_order run: not if it raised.
order_returned_even_if_raised(order) == TRUE
order_returned_without_slippage(order) == ~order.raise /\ order.average % 2 = 0
order_returned(order) == ~order.raise

\* execute_sell's early return before the try block.
execute_sell_guard(s) == s.in_position

\* execute_sell: btc_balance and sell_amount (10^-6 BTC).
btc_balance_of(balance) == IF balance.btc # None THEN balance.btc[1] ELSE 0
sell_amount_ignores_balance(position_size, btc_balance) == position_size
sell_amount_of(position_size, btc_balance) == Min(position_size, btc_balance)

\* execute_sell: "Actualizar el estado".
sell_commit_keeps_size(s) ==
    [s EXCEPT !.in_position = FALSE, !.entry_price = None]
sell_commit_frees_slot(s) ==
    [s EXCEPT !.in_position = FALSE, !.entry_price = None, !.position_size = None,
              !.daily_trades = IF @ > 0 THEN @ - 1 ELSE @]
sell_commit(s) ==
    [s EXCEPT !.in_position = FALSE, !.entry_price = None, !.position_size = None]

(* ------------------------------ state --------------------------------- *)
VARIABLES
    \* TradingState: in_position, entry_price, position_size, daily_trades,
    \* last_trade_date
    bot,
    \* the wall clock: the date, and minute = 0 from 00:00 up to 00:01, 1 after
    today, minute,
    \* the "00:01" job of schedule is due
    job_due,
    \* where run() is: the call it is blocked in
    pc,
    \* the live locals of execute_buy / execute_sell
    loc,
    \* history: the current (or last) execute_buy / execute_sell attempt
    att,
    \* history: the current (or last) tick
    tick,
    \* history: buy orders committed, and counter resets done, on the date today
    buys_today, resets_today,
    \* a call of the signal detector on its own: its arguments and results
    call,
    \* history of the process: whether _init_exchange raised, how a
    \* KeyboardInterrupt ended it and whether the open position was warned of,
    \* the sides of the last two orders the exchange accepted, and the number of
    \* buy orders that returned since daily_trades was last set to 0
    hist,
    \* the configuration read at startup: the optional trading-hours window
    config

vars == <<bot, today, minute, job_due, pc, loc, att, tick, buys_today, resets_today,
          call, hist, config>>

NoLocals ==
    [usdt_balance |-> 0, current_price |-> 0, position_size_usd |-> 0,
     position_size_btc |-> 0, btc_balance |-> 0, sell_amount |-> 0]

\* in_position, entry_price, position_size, daily_trades of a TradingState
Snapshot(s) == <<s.in_position, s.entry_price, s.position_size, s.daily_trades>>

\* op: "buy" / "sell"; caller: who called it; pre: the state it started in;
\* raised: a connector call raised; order_ok and average: the order call
\* returned, and its fill price; balance: the free balance read (cents for a
\* buy, 10^-6 BTC for a sell); absent: the answer held no USDT; quote: the price execute_buy read; calls: the
\* connector calls made; orders, amount: the orders submitted, and the amount
\* of the last one.
NoAttempt ==
    [op |-> "none", caller |-> "none", pre |-> Snapshot(InitialState),
     raised |-> FALSE, order_ok |-> FALSE, average |-> 0, balance |-> None,
     absent |-> FALSE, quote |-> None, calls |-> {}, orders |-> 0, amount |-> None]
StartAttempt(op, caller, s) ==
    [NoAttempt EXCEPT !.op = op, !.caller = caller, !.pre = Snapshot(s)]
Calls(a, entered, name) ==
    IF entered THEN [a EXCEPT !.calls = @ \cup {name}] ELSE a
\* No detector call, and a call of both detectors on the state s and the
\* DataFrame df, before it returns.
\* The tick in progress: its date, whether it is the first of a new date,
\* whether its hour is outside a configured trading-hours window, whether
\* fetch_ohlcv_data has returned, and with None or no row, the branch
\* of the dispatch, the detector it called and the buy detector's answer.
NoTick ==
    [date |-> None, new_day |-> FALSE, outside |-> FALSE, fetched |-> FALSE,
     no_rows |-> FALSE, buy_signal |-> FALSE, dispatch |-> "none", evaluated |-> "none"]
NoHistory ==
    [init_failed |-> FALSE, interrupt |-> "none", warned |-> FALSE,
     prev_order |-> "none", last_order |-> "none", since_reset |-> 0]
Accepted(h, side) == [h EXCEPT !.prev_order = h.last_order, !.last_order = side]
\* history of a buy order that returned, and of a call of reset_daily_counters
\* on the date last_trade_date holds (kept) or on another (fired)
Bought(h) ==
    [Accepted(h, "buy") EXCEPT !.since_reset = Min(@ + 1, max_daily_trades + 1)]
Recount(h, fired) == IF fired THEN [h EXCEPT !.since_reset = 0] ELSE h
NoCall ==
    [fn |-> "none", done |-> FALSE, s |-> InitialState, df |-> NoneDF,
     buy |-> FALSE, sell |-> FALSE]
SignalCall(s, df) ==
    [fn |-> "check_signals", done |-> FALSE, s |-> s, df |-> df,
     buy |-> FALSE, sell |-> FALSE]

\* The configuration of src/main.py, which has no trading-hours window, and
\* that of the variant of the engine with one, from start_hour to end_hour.
NoHours == [trading_hours |-> None]
WithHours == [trading_hours |-> Some(<<8, 20>>)]
\* The UTC hours a tick may start in.
Hours == {3, 12, 20}
\* "if a trading-hours window is configured and the current UTC hour falls
\* outside it".
outside_trading_hours_late_only(cfg, hour) ==
    cfg.trading_hours # None /\ hour >= cfg.trading_hours[1][2]
outside_trading_hours(cfg, hour) ==
    /\ cfg.trading_hours # None
    /\ hour < cfg.trading_hours[1][1] \/ hour >= cfg.trading_hours[1][2]

Init ==
    /\ config = NoHours
    /\ bot = InitialState
    /\ today = 0
    /\ minute \in {0, 1}
    /\ job_due = FALSE
    /\ pc = "init_exchange"
    /\ loc = NoLocals
    /\ att = NoAttempt
    /\ tick = NoTick
    /\ buys_today = 0
    /\ resets_today = 0
    /\ call = NoCall
    /\ hist = NoHistory

\* history of a call of reset_daily_counters that took bot to s
CountReset(s) ==
    resets_today' = IF s # bot /\ resets_today < 2 THEN resets_today + 1
                    ELSE resets_today

(* ------------------------------ run() ---------------------------------- *)
\* schedule.run_pending(): the 00:01 job, reset_daily_counters, if it is due.
\* BTCDayTrader(): _init_exchange returns or raises; __main__ logs the
\* failure and the process ends, or goes on to run().
after_init_swallows(raised) == "run_pending"
after_init(raised) == IF raised THEN "fatal" ELSE "run_pending"
InitExchange ==
    /\ pc = "init_exchange"
    /\ \E raised \in BOOLEAN :
        /\ hist' = [hist EXCEPT !.init_failed = raised]
        /\ pc' = after_init(raised)
    /\ UNCHANGED <<bot, today, minute, job_due, loc, att, tick, buys_today,
                   resets_today, call, config>>

RunPending ==
    /\ UNCHANGED <<call, config>>
    /\ pc = "run_pending"
    /\ hist' = Recount(hist, job_due /\ bot.last_trade_date # Some(today))
    /\ LET s == IF job_due THEN reset_daily_counters(bot, today) ELSE bot
       IN  bot' = s /\ CountReset(s)
    /\ job_due' = FALSE
    /\ att' = NoAttempt
    /\ pc' = "tick"
    /\ UNCHANGED <<today, minute, loc, tick, buys_today>>

\* run_trading_cycle up to its call of fetch_ohlcv.
TickStart ==
    /\ UNCHANGED <<call, config>>
    /\ pc = "tick"
    /\ hist' = Recount(hist, bot.last_trade_date # Some(today))
    /\ \E hour \in Hours :
        LET s == reset_daily_counters(bot, today)
        IN  /\ bot' = s /\ CountReset(s)
            /\ tick' = [NoTick EXCEPT
                           !.date = Some(today),
                           !.new_day = tick.date # None /\ today > tick.date[1],
                           !.outside = /\ config.trading_hours # None
                                       /\ \/ hour < config.trading_hours[1][1]
                                          \/ hour >= config.trading_hours[1][2]]
            \* the trading-hours gate: flatten if in position, end the tick
            /\ IF outside_trading_hours(config, hour)
               THEN IF s.in_position
                    THEN /\ att' = Calls(StartAttempt("sell", "trading_hours", s),
                                         TRUE, "fetch_balance")
                         /\ pc' = "sell_balance"
                    ELSE att' = att /\ pc' = "sleep"
               ELSE att' = att /\ pc' = "fetch_ohlcv"
    /\ UNCHANGED <<today, minute, job_due, loc, buys_today>>

\* fetch_ohlcv_data returns (None if the connector raised), add_indicators, and
\* the dispatch, up to the fetch_balance call of execute_sell or execute_buy.
FetchOhlcv ==
    /\ UNCHANGED <<call, hist, config>>
    /\ pc = "fetch_ohlcv"
    /\ \/ \E df \in TickFrames \cup {NoneDF} :
            LET empty == data_unavailable(df)
                branch == IF empty THEN "none" ELSE dispatch(bot, df)
            IN  /\ tick' = [tick EXCEPT
                        !.fetched = TRUE, !.no_rows = df.is_none \/ df.len = 0,
                        !.buy_signal = ~empty /\ check_buy_signals(df),
                        !.dispatch = IF empty THEN "none"
                                     ELSE IF bot.in_position THEN "long" ELSE "flat",
                        !.evaluated = IF empty THEN "none" ELSE evaluated(bot)]
                /\ IF branch = "sell"
                   THEN /\ att' = Calls(StartAttempt("sell", "run_trading_cycle", bot),
                                        execute_sell_guard(bot), "fetch_balance")
                        /\ pc' = IF execute_sell_guard(bot) THEN "sell_balance"
                                 ELSE "sleep"
                   ELSE IF branch = "buy"
                   THEN /\ att' = Calls(StartAttempt("buy", "run_trading_cycle", bot),
                                        execute_buy_guard(bot), "fetch_balance")
                        /\ pc' = IF execute_buy_guard(bot) THEN "buy_balance"
                                 ELSE "sleep"
                   ELSE att' = att /\ pc' = "sleep"
       \* add_indicators raises on rows the indicator library cannot take
       \/ /\ pc' = "backoff"
          /\ UNCHANGED <<att, tick>>
    /\ UNCHANGED <<bot, today, minute, job_due, loc, buys_today, resets_today>>

(* --------------------------- execute_buy ------------------------------- *)
\* fetch_balance returns, up to the fetch_ticker call.
BuyFetchBalance ==
    /\ UNCHANGED <<call, hist, config>>
    /\ pc = "buy_balance"
    /\ \E balance \in BuyBalances :
        IF balance.raise
        THEN /\ att' = [att EXCEPT !.raised = TRUE]
             /\ pc' = "sleep" /\ loc' = NoLocals
        ELSE LET usdt_balance == usdt_balance_of(balance)
                 read == [att EXCEPT
                             !.balance = Some(usdt_balance),
                             !.absent = ~balance.usdt /\ balance.total = None]
             IN  IF no_funds(usdt_balance)
                 THEN pc' = "sleep" /\ loc' = NoLocals /\ att' = read
                 ELSE /\ loc' = [NoLocals EXCEPT !.usdt_balance = usdt_balance]
                      /\ pc' = "buy_ticker"
                      /\ att' = Calls(read, TRUE, "fetch_ticker")
    /\ UNCHANGED <<bot, today, minute, job_due, tick, buys_today, resets_today>>

\* fetch_ticker returns, sizing, up to the create_market_buy_order call.
BuyFetchTicker ==
    /\ UNCHANGED <<call, hist, config>>
    /\ pc = "buy_ticker"
    /\ \E ticker \in Tickers :
        IF ticker.raise
        THEN /\ att' = [att EXCEPT !.raised = TRUE]
             /\ pc' = "sleep" /\ loc' = NoLocals
        ELSE LET current_price == ticker.last
                 position_size_usd == position_size_usd_of(loc.usdt_balance)
                 read == [att EXCEPT !.quote = Some(current_price)]
             IN  IF price_invalid(current_price)
                    THEN pc' = "sleep" /\ loc' = NoLocals /\ att' = read
                    ELSE IF position_size_usd < 10 * 100
                    THEN pc' = "sleep" /\ loc' = NoLocals /\ att' = read
                    ELSE /\ att' = [Calls(read, TRUE, "create_market_buy_order")
                                       EXCEPT !.orders = @ + 1,
                                              !.amount = Some(position_size_usd)]
                         /\ loc' = [loc EXCEPT
                                !.current_price = current_price,
                                !.position_size_usd = position_size_usd,
                                !.position_size_btc =
                                    position_size_btc_of(position_size_usd,
                                                         current_price)]
                         /\ pc' = "buy_order"
    /\ UNCHANGED <<bot, today, minute, job_due, tick, buys_today, resets_today>>

\* create_market_buy_order returns: the state update, or the except clause.
BuyOrder ==
    /\ UNCHANGED <<call, config>>
    /\ pc = "buy_order"
    /\ \E order \in Orders(loc.current_price) :
        /\ att' = [att EXCEPT !.raised = order.raise, !.order_ok = ~order.raise,
                              !.average = order.average]
        /\ hist' = IF order.raise THEN hist ELSE Bought(hist)
        /\ IF order_returned(order)
           THEN /\ bot' = buy_commit(bot, loc.current_price, loc.position_size_btc,
                                     today)
                /\ buys_today' = Min(buys_today + 1, max_daily_trades + 1)
           ELSE UNCHANGED <<bot, buys_today>>
    /\ pc' = "sleep"
    /\ loc' = NoLocals
    /\ UNCHANGED <<today, minute, job_due, tick, resets_today>>

(* --------------------------- execute_sell ------------------------------ *)
\* fetch_balance returns, up to the create_market_sell_order call.
SellFetchBalance ==
    /\ UNCHANGED <<call, hist, config>>
    /\ pc = "sell_balance"
    /\ \E balance \in SellBalances :
        IF balance.raise
        THEN /\ att' = [att EXCEPT !.raised = TRUE]
             /\ pc' = "sleep" /\ loc' = NoLocals
        ELSE LET btc_balance == btc_balance_of(balance)
                 sell_amount == sell_amount_of(bot.position_size[1], btc_balance)
                 read == [att EXCEPT !.balance = Some(btc_balance)]
             IN  /\ IF sell_amount <= 0
                    THEN pc' = "sleep" /\ loc' = NoLocals /\ att' = read
                    ELSE /\ att' = [Calls(read, TRUE, "create_market_sell_order")
                                       EXCEPT !.orders = @ + 1,
                                              !.amount = Some(sell_amount)]
                         /\ loc' = [NoLocals EXCEPT !.btc_balance = btc_balance,
                                                    !.sell_amount = sell_amount]
                         /\ pc' = "sell_order"
    /\ UNCHANGED <<bot, today, minute, job_due, tick, buys_today, resets_today>>

\* create_market_sell_order returns, up to the fetch_ticker call.
SellOrder ==
    /\ UNCHANGED <<call, config>>
    /\ pc = "sell_order"
    /\ \E order \in Orders(bot.entry_price[1]) :
        /\ att' = [Calls(att, ~order.raise, "fetch_ticker")
                      EXCEPT !.raised = order.raise, !.order_ok = ~order.raise,
                             !.average = order.average]
        /\ IF order.raise
           THEN pc' = "sleep" /\ loc' = NoLocals /\ hist' = hist
           ELSE pc' = "sell_ticker" /\ loc' = loc /\ hist' = Accepted(hist, "sell")
    /\ UNCHANGED <<bot, today, minute, job_due, tick, buys_today, resets_today>>

\* fetch_ticker returns: P&L, the state update, or the except clause.
SellFetchTicker ==
    /\ UNCHANGED <<call, hist, config>>
    /\ pc = "sell_ticker"
    /\ \E ticker \in Tickers :
        IF ticker.raise
        THEN att' = [att EXCEPT !.raised = TRUE] /\ bot' = bot
        ELSE att' = att /\ bot' = sell_commit(bot)
    /\ pc' = "sleep"
    /\ loc' = NoLocals
    /\ UNCHANGED <<today, minute, job_due, tick, buys_today, resets_today>>

\* close_all_positions, called between two ticks.
CloseAllPositions ==
    /\ UNCHANGED <<call, hist, config>>
    /\ pc = "sleep"
    \* once between two ticks
    /\ att.caller # "close_all_positions"
    /\ IF bot.in_position
       THEN /\ att' = Calls(StartAttempt("sell", "close_all_positions", bot), TRUE,
                            "fetch_balance")
            /\ pc' = "sell_balance"
       ELSE /\ att' = StartAttempt("none", "close_all_positions", bot)
            /\ pc' = pc
    /\ UNCHANGED <<bot, today, minute, job_due, loc, tick, buys_today, resets_today>>

(* ------------------------- the loop and its clock ---------------------- *)
\* time.sleep(300) returns.
Sleep ==
    /\ UNCHANGED <<call, hist, config>>
    /\ pc = "sleep"
    /\ pc' = "run_pending"
    /\ UNCHANGED <<bot, today, minute, job_due, loc, att, tick, buys_today,
                   resets_today>>

\* except Exception: time.sleep(60) returns.
after_backoff_gives_up == "stopped"
after_backoff == "run_pending"
Backoff ==
    /\ UNCHANGED <<call, hist, config>>
    /\ pc = "backoff"
    /\ pc' = after_backoff
    /\ UNCHANGED <<bot, today, minute, job_due, loc, att, tick, buys_today,
                   resets_today>>

\* KeyboardInterrupt, delivered while run() is blocked in a connector call or
\* a sleep: it passes the "except Exception" clauses and ends the loop.  Raised
\* in the try block it reaches "except KeyboardInterrupt", which warns of an
\* open position and breaks; raised by the sleep of the "except Exception"
\* clause it is outside the try block and leaves run() and __main__ uncaught.
interrupt_caught(at) == at # "backoff"
on_interrupt(s) == s
BlockingCalls ==
    {"fetch_ohlcv", "buy_balance", "buy_ticker", "buy_order", "sell_balance",
     "sell_order", "sell_ticker", "sleep", "backoff"}
KeyboardInterrupt ==
    /\ UNCHANGED <<call, config>>
    /\ pc \in BlockingCalls
    /\ pc' = "stopped"
    /\ loc' = NoLocals
    /\ bot' = on_interrupt(bot)
    /\ hist' = [hist EXCEPT
                   !.interrupt = IF interrupt_caught(pc) THEN "caught" ELSE "uncaught",
                   !.warned = interrupt_caught(pc) /\ bot.in_position]
    /\ UNCHANGED <<today, minute, job_due, att, tick, buys_today, resets_today>>

\* The clock passes 00:01 (the job of schedule becomes due) or midnight.  A
\* job of schedule that comes due is not run: run_pending() runs it, on the
\* thread of the loop.
job_comes_due_runs_job(s, date_today) == reset_daily_counters(s, date_today)
job_comes_due(s, date_today) == s
Clock ==
    /\ UNCHANGED <<call, hist, config>>
    /\ pc \notin {"init_exchange", "fatal", "stopped"}
    /\ \/ /\ minute = 0
          /\ minute' = 1 /\ job_due' = TRUE
          /\ bot' = job_comes_due(bot, today)
          /\ UNCHANGED <<today, buys_today, resets_today>>
       \/ /\ minute = 1 /\ today < MaxDay
          /\ today' = today + 1 /\ minute' = 0
          /\ buys_today' = 0 /\ resets_today' = 0
          /\ UNCHANGED <<bot, job_due>>
    /\ UNCHANGED <<pc, loc, att, tick>>

Next ==
    \/ InitExchange \/ RunPending \/ TickStart \/ FetchOhlcv
    \/ BuyFetchBalance \/ BuyFetchTicker \/ BuyOrder
    \/ SellFetchBalance \/ SellOrder \/ SellFetchTicker
    \/ CloseAllPositions \/ Sleep \/ Backoff \/ KeyboardInterrupt \/ Clock

Spec == Init /\ [][Next]_vars

\* The steps of the process itself: every connector call returns or raises and
\* every sleep ends, so a step of the process that stays possible is taken.
\* KeyboardInterrupt, the clock and the caller of close_all_positions are the
\* environment's.
Loop ==
    \/ InitExchange \/ RunPending \/ TickStart \/ FetchOhlcv
    \/ BuyFetchBalance \/ BuyFetchTicker \/ BuyOrder
    \/ SellFetchBalance \/ SellOrder \/ SellFetchTicker
    \/ Sleep \/ Backoff
SpecLoop == Spec /\ WF_vars(Loop)

\* The variant of the engine with a trading-hours window.
InitHours ==
    /\ config = WithHours
    /\ bot = InitialState
    /\ today = 0
    /\ minute \in {0, 1}
    /\ job_due = FALSE
    /\ pc = "init_exchange"
    /\ loc = NoLocals
    /\ att = NoAttempt
    /\ tick = NoTick
    /\ buys_today = 0
    /\ resets_today = 0
    /\ call = NoCall
    /\ hist = NoHistory
SpecHours == InitHours /\ [][Next]_vars

(* ------------------------------ claims --------------------------------- *)
\* C1: a connector call that raises during execute_buy or execute_sell is
\* caught there and leaves in_position, entry_price, position_size and
\* daily_trades as they were before the attempt; an attempt changes them only
\* if its order call returned.
C1_FailureLeavesState ==
    att.op # "none" =>
        /\ att.raised => Snapshot(bot) = att.pre /\ pc # "backoff"
        /\ Snapshot(bot) # att.pre => att.order_ok
C1_Witness ==
    /\ att.op = "buy" /\ att.raised /\ pc = "sleep"
    /\ bot.daily_trades = 1 /\ att.pre[4] = 1

\* C2: entry_price and position_size are both set while in_position, and both
\* None while not.
C2_CoNull ==
    IF bot.in_position
    THEN bot.entry_price # None /\ bot.position_size # None
    ELSE bot.entry_price = None /\ bot.position_size = None
C2_Witness ==
    /\ ~bot.in_position /\ att.op = "sell" /\ att.order_ok /\ ~att.raised
    /\ pc = "sleep" /\ att.pre[1]

\* C3: daily_trades never exceeds max_daily_trades, and is below it while a
\* buy order is being submitted.
C3_DailyCap ==
    /\ bot.daily_trades <= max_daily_trades
    /\ pc = "buy_order" => bot.daily_trades < max_daily_trades
C3_Witness == pc = "buy_order" /\ bot.daily_trades = max_daily_trades - 1

\* C4: on every calendar date at most max_daily_trades buy orders are
\* committed, the date being the clock's when the order is committed.
C4_BuysPerDate == buys_today <= max_daily_trades
C4_Witness == buys_today = max_daily_trades /\ today > 0

\* C5: in a tick that starts on a later date than the previous tick started,
\* daily_trades is 0 after the tick's reset step and before its dispatch.
C5_ResetOnNewDay ==
    (pc = "fetch_ohlcv" /\ tick.new_day) => bot.daily_trades = 0

\* C6: a call of reset_daily_counters (by a tick or by the 00:01 job) on the
\* date last_trade_date records changes neither daily_trades nor
\* last_trade_date, and the counter is reset at most once per calendar date.
ResetCall ==
    \/ pc = "run_pending" /\ job_due /\ pc' = "tick"
    \/ pc = "tick" /\ pc' = "fetch_ohlcv"
C6_ResetOncePerDay ==
    /\ [](resets_today <= 1)
    /\ [][(ResetCall /\ bot.last_trade_date = Some(today)) =>
             /\ bot'.daily_trades = bot.daily_trades
             /\ bot'.last_trade_date = bot.last_trade_date]_vars
C6_Witness ==
    pc = "fetch_ohlcv" /\ bot.daily_trades > 0 /\ resets_today = 1

\* C7: a buy order is submitted, and the engine goes from Flat to Long, only
\* in a tick in which it is Flat, the buy signal of the tick's candles is
\* true, daily_trades < max_daily_trades and the sizing check passed.
C7_EntryConditions ==
    /\ pc = "buy_order" =>
            /\ ~bot.in_position
            /\ tick.buy_signal
            /\ bot.daily_trades < max_daily_trades
            /\ loc.position_size_usd >= min_position_size * 100
            /\ loc.current_price > 0
    /\ (att.op = "buy" /\ att.order_ok) => tick.buy_signal
C7_Witness == pc = "buy_order" /\ bot.daily_trades = 2 /\ tick.buy_signal

\* C8: a successful entry sets entry_price to the price fetch_ticker quoted,
\* position_size to the notional over that price rounded to 6 decimals, and
\* adds exactly one to daily_trades.
C8_EntryCommit ==
    [][(~bot.in_position /\ bot'.in_position) =>
          /\ pc = "buy_order"
          /\ bot'.entry_price = Some(loc.current_price)
          /\ 2 * Abs(bot'.position_size[1] * loc.current_price
                       - loc.position_size_usd * 10000) <= loc.current_price
          /\ bot'.daily_trades = bot.daily_trades + 1]_vars
C8_Witness ==
    /\ bot.in_position /\ att.op = "buy" /\ att.order_ok
    /\ att.average # bot.entry_price[1]
    /\ bot.position_size = Some(143)

\* C9: the amount of a submitted sell order is the smaller of the recorded
\* position_size and the free BTC read in the same attempt.
C9_SellAmount ==
    pc \in {"sell_order", "sell_ticker"} =>
        /\ loc.sell_amount <= bot.position_size[1]
        /\ loc.sell_amount <= loc.btc_balance
        /\ loc.sell_amount \in {bot.position_size[1], loc.btc_balance}
C9_Witness ==
    /\ pc = "sell_order" /\ loc.sell_amount = loc.btc_balance
    /\ loc.sell_amount < bot.position_size[1]

\* C10: an exit attempt, from a tick or from close_all_positions, successful
\* or not, leaves daily_trades as it was.
C10_ExitKeepsCount ==
    att.op = "sell" => bot.daily_trades = att.pre[4]
C10_Witness ==
    /\ att.op = "sell" /\ att.order_ok /\ ~att.raised /\ ~bot.in_position
    /\ bot.daily_trades = 2

(* ------------------------- sizing and pre-flight ------------------------ *)
\* A buy attempt that read a positive balance (cents) and a positive price.
Sized(a) ==
    /\ a.op = "buy" /\ a.balance # None /\ a.quote # None
    /\ a.balance[1] > 0 /\ a.quote[1] > 0
\* The requested notional, balance x risk_per_trade x leverage, in 10^-4 USDT,
\* and the minimum order notional in the same unit and in cents.
Requested(a) == a.balance[1] * risk_per_trade * leverage
MinimumX100 == min_position_size * 100 * 100
MinimumCents == min_position_size * 100
Submitted(a) == "create_market_buy_order" \in a.calls

\* C11: a buy attempt with balance > 0 and price > 0 submits an order for the
\* requested notional if that is at least 10, for exactly 10 if the notional
\* is below 10 and the balance at least 10, and no order if both are below
\* 10; no buy order is for less than 10; balance 1000, risk 0.02, leverage 1
\* give notional 20 and size 0.0004 at price 50000.
C11_Sizing ==
    /\ Sized(att) =>
        /\ Requested(att) >= MinimumX100 =>
               /\ Submitted(att) /\ att.orders = 1
               /\ att.amount # None /\ att.amount[1] * 100 = Requested(att)
        /\ Requested(att) < MinimumX100 /\ att.balance[1] >= MinimumCents =>
               /\ Submitted(att) /\ att.orders = 1
               /\ att.amount = Some(MinimumCents)
        /\ Requested(att) < MinimumX100 /\ att.balance[1] < MinimumCents =>
               ~Submitted(att) /\ att.orders = 0 /\ att.amount = None
    /\ att.op = "buy" /\ att.amount # None => att.amount[1] >= MinimumCents
    /\ position_size_usd_with(100000, 2, 1) = 2000
    /\ position_size_btc_of(2000, 50000) = 400
C11_Witness ==
    /\ Sized(att) /\ att.balance = Some(1000) /\ att.amount = Some(MinimumCents)
    /\ pc = "buy_order"

\* C12 as stated: whenever the requested notional is below 10 the entry is
\* rejected and no buy order is sent.
C12_SmallNotionalRejected ==
    att.op = "buy" /\ att.balance # None /\ Requested(att) < MinimumX100 =>
        ~Submitted(att) /\ att.orders = 0
\* C12: a requested notional below 10 is rejected, with no buy order sent, when
\* the free balance is below 10 too; with a balance of at least 10 and a
\* positive price the order is sent, for exactly 10.
C12_SmallNotionalAndBalanceRejected ==
    att.op = "buy" /\ att.balance # None /\ Requested(att) < MinimumX100 =>
        /\ att.balance[1] < MinimumCents => ~Submitted(att) /\ att.orders = 0
        /\ att.balance[1] >= MinimumCents /\ att.quote # None /\ att.quote[1] > 0 =>
               Submitted(att) /\ att.amount = Some(MinimumCents)
C12_Witness ==
    /\ Sized(att) /\ att.balance = Some(500) /\ pc = "sleep"
    /\ ~Submitted(att) /\ ~att.raised

\* C13: a buy attempt that reads a free balance <= 0, or no USDT at all, calls
\* neither fetch_ticker nor create_market_buy_order; an exit attempt whose
\* sell amount is <= 0 does not call create_market_sell_order; both leave
\* the trading state as it was.
C13_PreFlight ==
    /\ att.op = "buy" /\ att.balance # None /\ (att.absent \/ att.balance[1] <= 0) =>
        /\ "fetch_ticker" \notin att.calls /\ ~Submitted(att) /\ att.orders = 0
        /\ Snapshot(bot) = att.pre
    /\ att.op = "sell" /\ att.balance # None
           /\ (att.pre[3] = None \/ Min(att.pre[3][1], att.balance[1]) <= 0) =>
        /\ "create_market_sell_order" \notin att.calls /\ att.orders = 0
        /\ Snapshot(bot) = att.pre
C13_Witness ==
    /\ att.op = "buy" /\ att.absent /\ att.balance = Some(0) /\ pc = "sleep"
    /\ att.calls = {"fetch_balance"} /\ att.pre[4] = 1

\* C14: a buy attempt that is quoted a price <= 0 does not call
\* create_market_buy_order and leaves the trading state as it was, whatever
\* the balance and the notional.
C14_BadPrice ==
    att.op = "buy" /\ att.quote # None /\ att.quote[1] <= 0 =>
        ~Submitted(att) /\ att.orders = 0 /\ Snapshot(bot) = att.pre
C14_Witness ==
    /\ att.op = "buy" /\ att.quote = Some(-1) /\ att.balance = Some(10000)
    /\ pc = "sleep" /\ ~att.raised

(* ------------------------------ dispatch -------------------------------- *)
\* The attempt of the current tick, if the tick made one.
TickAttempt == att.caller = "run_trading_cycle"

\* C20: a tick that is long at dispatch calls the sell detector only and
\* submits no buy order; a flat tick calls the buy detector only if
\* daily_trades < max_daily_trades and submits no sell order; a tick submits at
\* most one order and, once a connector call failed, makes no further call.
C20_TickDispatch ==
    /\ tick.dispatch = "long" =>
        /\ tick.evaluated = "sell"
        /\ TickAttempt => att.op = "sell" /\ ~Submitted(att)
    /\ tick.dispatch = "flat" =>
        /\ tick.evaluated \in {"buy", "none"}
        /\ TickAttempt =>
               /\ att.op = "buy" /\ tick.evaluated = "buy"
               /\ att.pre[4] < max_daily_trades
               /\ "create_market_sell_order" \notin att.calls
    /\ TickAttempt =>
        /\ att.orders <= 1
        /\ att.raised => pc \in {"sleep", "run_pending", "stopped"}
C20_Witness ==
    /\ tick.dispatch = "long" /\ TickAttempt /\ att.orders = 1 /\ att.raised
    /\ pc = "sleep" /\ bot.in_position /\ bot.daily_trades < max_daily_trades

(* ------------------- the signal detectors on their own ------------------ *)
\* Indicator values of the previous and the last row, as <<previous, last>>:
\* the EMA 20 against an EMA 50 of 100 (crossing up, crossing down, level),
\* the RSI (crossing 30 from 30, crossing 70 from 70, level), the MACD
\* against a signal of 0 (crossing up, crossing down, level).
EmaPairs == {<<99, 101>>, <<101, 99>>, <<100, 100>>}
RsiPairs == {<<30, 31>>, <<70, 71>>, <<50, 50>>}
MacdPairs == {<<-1, 1>>, <<1, -1>>, <<0, 0>>}
\* The Bollinger bands around a close: the close on the lower band, on the
\* upper band, or far from both.
Bands(close) == {<<close, 1000000>>, <<1, close>>, <<1, 1000000>>}
\* Closes around an entry at 100: at and under the stop-loss, between the
\* thresholds, at and over the take-profit.
SignalCloses == {98, 99, 100, 102, 103, 104}
SignalLens == {0, 30, 49, 50, 51, 100}
SignalFrames ==
    UNION {{DataFrame(n, Row(e[1], 100, r[1], m[1], 0, b[1], b[2], c),
                         Row(e[2], 100, r[2], m[2], 0, b[1], b[2], c)) :
                e \in EmaPairs, r \in RsiPairs, m \in MacdPairs, b \in Bands(c)} :
               n \in SignalLens, c \in SignalCloses}
\* The states the detectors are called in: flat, and long from an entry at
\* 100 USDT.
SignalStates ==
    {InitialState,
     [InitialState EXCEPT !.daily_trades = max_daily_trades,
                          !.last_trade_date = Some(0)],
     [InitialState EXCEPT !.in_position = TRUE, !.entry_price = Some(100),
                          !.position_size = Some(400), !.daily_trades = 1],
     [InitialState EXCEPT !.in_position = TRUE, !.entry_price = Some(100),
                          !.position_size = Some(200),
                          !.daily_trades = max_daily_trades,
                          !.last_trade_date = Some(0)]}

SignalsInit ==
    /\ bot = InitialState
    /\ today = 0
    /\ minute = 0
    /\ job_due = FALSE
    /\ pc = "stopped"
    /\ loc = NoLocals
    /\ att = NoAttempt
    /\ tick = NoTick
    /\ buys_today = 0
    /\ resets_today = 0
    /\ hist = NoHistory
    /\ config = NoHours
    /\ call \in {SignalCall(s, df) : s \in SignalStates, df \in SignalFrames}

\* check_buy_signals(df) and check_sell_signals(df) return.
CheckSignals ==
    /\ call.fn = "check_signals" /\ ~call.done
    /\ call' = [call EXCEPT !.done = TRUE,
                            !.buy = check_buy_signals(call.df),
                            !.sell = check_sell_signals(call.s, call.df)]
    /\ UNCHANGED <<bot, today, minute, job_due, pc, loc, att, tick, buys_today,
                   resets_today, hist, config>>

SpecSignals == SignalsInit /\ [][CheckSignals]_vars

\* The conditions of the two votes, read off the last two rows of a call's
\* DataFrame; a comparison with an undefined value does not hold.
Defined(x) == x # NaN
BuyConditions(df) ==
    <<Defined(df.prev.ema20) /\ Defined(df.prev.ema50) /\ Defined(df.last.ema20)
          /\ Defined(df.last.ema50)
          /\ df.prev.ema20 <= df.prev.ema50 /\ df.last.ema20 > df.last.ema50,
      Defined(df.prev.rsi) /\ Defined(df.last.rsi)
          /\ df.prev.rsi <= 30 /\ df.last.rsi > 30,
      Defined(df.prev.macd) /\ Defined(df.prev.macd_signal)
          /\ Defined(df.last.macd) /\ Defined(df.last.macd_signal)
          /\ df.prev.macd <= df.prev.macd_signal
          /\ df.last.macd > df.last.macd_signal,
      Defined(df.last.bb_low) /\ df.last.close * 100 <= df.last.bb_low * 101>>
SellConditions(df) ==
    <<Defined(df.prev.ema20) /\ Defined(df.prev.ema50) /\ Defined(df.last.ema20)
          /\ Defined(df.last.ema50)
          /\ df.prev.ema20 >= df.prev.ema50 /\ df.last.ema20 < df.last.ema50,
      Defined(df.prev.rsi) /\ Defined(df.last.rsi)
          /\ df.prev.rsi <= 70 /\ df.last.rsi > 70,
      Defined(df.prev.macd) /\ Defined(df.prev.macd_signal)
          /\ Defined(df.last.macd) /\ Defined(df.last.macd_signal)
          /\ df.prev.macd >= df.prev.macd_signal
          /\ df.last.macd < df.last.macd_signal,
      Defined(df.last.bb_high) /\ df.last.close * 100 >= df.last.bb_high * 99>>
Votes(conds) == Cardinality({i \in 1..4 : conds[i]})
\* The series has the history the detectors ask for.
SufficientHistory(df) == ~df.is_none /\ df.len >= min_rows
\* The close is at or over the take-profit, at or under the stop-loss, of the
\* entry price of a call made while in position (prices x 100).
AtTakeProfit(c) ==
    c.df.last.close * 100 >= c.s.entry_price[1] * (100 + take_profit_pct)
AtStopLoss(c) ==
    c.df.last.close * 100 <= c.s.entry_price[1] * (100 - stop_loss_pct)

\* C15: on a series with fewer than 51 entries check_buy_signals and
\* check_sell_signals both return false.
C15_ShortHistory ==
    call.done /\ call.df.len < 51 => ~call.buy /\ ~call.sell

\* C16: on a series with sufficient history check_buy_signals returns true iff
\* at least 2 of the four buy conditions hold, for every combination of them.
C16_BuyVote ==
    call.done /\ SufficientHistory(call.df) =>
        (call.buy <=> Votes(BuyConditions(call.df)) >= 2)
C16_Witness ==
    /\ call.done /\ call.df.len = 51 /\ ~call.buy
    /\ BuyConditions(call.df) = <<FALSE, FALSE, FALSE, TRUE>>

\* C17 as stated: in position, the sell signal is true whenever the close is at
\* or over entry x (1 + take_profit_pct).
C17_TakeProfitAlways ==
    call.done /\ call.s.in_position /\ AtTakeProfit(call) => call.sell
\* C17: in position, on a series of at least 50 rows, the sell signal is true
\* whenever the close is at or over entry x (1 + take_profit_pct), whatever
\* the four technical sell conditions; on a shorter series it is false.
C17_TakeProfit ==
    call.done /\ call.s.in_position /\ AtTakeProfit(call) =>
        (call.sell <=> SufficientHistory(call.df))
C17_Witness ==
    /\ call.done /\ call.s.in_position /\ call.df.last.close = 103 /\ call.sell
    /\ call.s.entry_price = Some(100)
    /\ SellConditions(call.df) = <<FALSE, FALSE, FALSE, FALSE>>

\* C18 as stated: in position, the sell signal is true whenever the close is at
\* or under entry x (1 - stop_loss_pct).
C18_StopLossAlways ==
    call.done /\ call.s.in_position /\ AtStopLoss(call) => call.sell
\* C18: in position, on a series of at least 50 rows, the sell signal is true
\* whenever the close is at or under entry x (1 - stop_loss_pct), whatever the
\* four technical sell conditions; on a shorter series it is false.
C18_StopLoss ==
    call.done /\ call.s.in_position /\ AtStopLoss(call) =>
        (call.sell <=> SufficientHistory(call.df))
C18_Witness ==
    /\ call.done /\ call.s.in_position /\ call.df.last.close = 99 /\ call.sell
    /\ call.s.entry_price = Some(100)
    /\ SellConditions(call.df) = <<FALSE, FALSE, FALSE, FALSE>>

\* C19 as stated: check_sell_signals is false when not in position; in
\* position with neither threshold reached it is true iff at least 2 of the
\* four sell conditions hold.
C19_SellVoteAlways ==
    /\ call.done /\ ~call.s.in_position => ~call.sell
    /\ call.done /\ call.s.in_position /\ ~AtTakeProfit(call) /\ ~AtStopLoss(call) =>
        (call.sell <=> Votes(SellConditions(call.df)) >= 2)
\* C19: check_sell_signals is false when not in position; in position with
\* neither threshold reached, on a series of at least 50 rows, it is true iff
\* at least 2 of the four sell conditions hold; on a shorter series it is
\* false.
C19_SellVote ==
    /\ call.done /\ ~call.s.in_position => ~call.sell
    /\ call.done /\ call.s.in_position /\ ~AtTakeProfit(call) /\ ~AtStopLoss(call) =>
        (call.sell <=> /\ SufficientHistory(call.df)
                       /\ Votes(SellConditions(call.df)) >= 2)
C19_Witness ==
    /\ call.done /\ call.s.in_position /\ call.df.last.close = 102 /\ ~call.sell
    /\ call.df.len = 100
    /\ SellConditions(call.df) = <<FALSE, TRUE, FALSE, FALSE>>

(* --------------------------- failures of a tick ------------------------- *)
\* The candle fetch of the tick in progress failed or returned no row.
DataUnavailable == tick.fetched /\ tick.no_rows

\* C21: when the candle fetch fails or returns an empty series the tick calls
\* no detector, makes no balance, ticker or order call and ends, and the step
\* leaves the trading state as it was.
C21_DataUnavailable ==
    /\ [](DataUnavailable =>
            /\ tick.evaluated = "none" /\ ~tick.buy_signal
            /\ ~TickAttempt)
    /\ [][pc = "fetch_ohlcv" /\ tick'.fetched /\ tick'.no_rows =>
            bot' = bot /\ att' = NoAttempt /\ pc' = "sleep"]_vars
C21_Witness ==
    /\ DataUnavailable /\ pc = "sleep" /\ bot.in_position /\ att = NoAttempt

\* C22: after a manual interrupt, in a tick, in the 300 s sleep or in the
\* 60 s backoff sleep, the loop has terminated and, if a position is open,
\* the warning was logged.
C22_InterruptWarns ==
    hist.interrupt # "none" =>
        pc = "stopped" /\ (bot.in_position => hist.warned)

\* C23: after a tick raised a failure other than an interrupt the loop backs
\* off and starts another tick, and unless a manual interrupt arrives (or the
\* engine was never constructed) ticks are started again and again.
Interrupted == hist.interrupt # "none"
C23_Recoverable ==
    /\ (pc = "backoff") ~> (pc = "tick" \/ Interrupted)
    /\ <>(Interrupted \/ pc = "fatal") \/ []<>(pc = "tick")
C23_Witness ==
    /\ pc = "tick" /\ tick.date # None /\ ~tick.fetched /\ bot.in_position

\* C24: when _init_exchange raises, the failure leaves the constructor, the
\* process ends, no tick is ever run and no order is ever submitted.
C24_StartupFailure ==
    hist.init_failed =>
        /\ pc = "fatal"
        /\ tick = NoTick /\ att = NoAttempt /\ hist.last_order = "none"
        /\ bot = InitialState
C24_Witness == hist.init_failed /\ pc = "fatal" /\ minute = 1

(* ------------------------ the detectors and state ----------------------- *)
\* The state with the fields the detectors may read, the other fields as
\* after construction.
ReadByDetectors(s) ==
    [InitialState EXCEPT !.in_position = s.in_position,
                         !.entry_price = s.entry_price]

\* C25: check_buy_signals and check_sell_signals leave in_position,
\* entry_price, position_size and daily_trades as they were, for every input,
\* and their results are those for the same candles and the same
\* (in_position, entry_price), whatever the other fields.
C25_Stateless ==
    /\ [][call'.s = call.s /\ call'.df = call.df /\ bot' = bot]_vars
    /\ [](call.done =>
            /\ call.sell = check_sell_signals(ReadByDetectors(call.s), call.df)
            /\ ~call.s.in_position => ~call.sell)
C25_Witness ==
    /\ call.done /\ call.sell /\ call.s.daily_trades = max_daily_trades
    /\ call.s.position_size = Some(200) /\ call.df.last.close = 100

(* ---------------------------- forced flatten ---------------------------- *)
\* C26: close_all_positions called while long makes the exit of
\* execute_sell: the amount sold is min(position_size, free BTC), and once the
\* exit has gone through the position fields are cleared and daily_trades is
\* as before; called while flat it makes no connector call and changes no
\* state.
C26_ForcedFlatten ==
    att.caller = "close_all_positions" =>
        /\ ~att.pre[1] =>
               /\ att.op = "none" /\ att.calls = {} /\ att.orders = 0
               /\ Snapshot(bot) = att.pre
        /\ att.pre[1] =>
               /\ att.op = "sell"
               /\ att.amount # None =>
                      /\ att.amount[1] = Min(att.pre[3][1], att.balance[1])
                      /\ att.amount[1] > 0
               /\ Snapshot(bot) # att.pre =>
                      /\ att.order_ok /\ ~att.raised
                      /\ Snapshot(bot) = <<FALSE, None, None, att.pre[4]>>
               /\ pc = "sleep" /\ att.order_ok /\ ~att.raised =>
                      Snapshot(bot) = <<FALSE, None, None, att.pre[4]>>
C26_Witness ==
    /\ att.caller = "close_all_positions" /\ att.order_ok /\ ~att.raised
    /\ pc = "sleep" /\ ~bot.in_position /\ att.amount = Some(200)
    /\ att.pre[3] # Some(200)

(* -------------------------- trading-hours gate -------------------------- *)
\* C27: a tick whose hour is outside the configured window starts the forced
\* exit if the engine is in position and ends otherwise, without fetching
\* candles or calling a detector; no buy attempt is made in such a tick.
C27_HoursGate ==
    /\ [](tick.outside =>
            /\ ~tick.fetched /\ tick.evaluated = "none" /\ ~tick.buy_signal
            /\ att.op # "buy" /\ ~TickAttempt /\ pc # "fetch_ohlcv")
    /\ [][pc = "tick" /\ pc' # "tick" /\ tick'.outside =>
            IF bot'.in_position
            THEN /\ att'.op = "sell" /\ att'.caller = "trading_hours"
                 /\ pc' = "sell_balance"
            ELSE att' = NoAttempt /\ pc' = "sleep"]_vars
C27_Witness ==
    /\ tick.outside /\ att.caller = "trading_hours" /\ att.order_ok /\ ~att.raised
    /\ pc = "sleep" /\ ~bot.in_position /\ bot.daily_trades < max_daily_trades

(* ----------------------------- single writer ---------------------------- *)
\* Between a tick's dispatch and the return of execute_buy / execute_sell.
InAttempt ==
    pc \in {"buy_balance", "buy_ticker", "buy_order", "sell_balance",
            "sell_order", "sell_ticker"}

\* C28: between a tick's dispatch decision and its state commit no reset runs
\* and no other tick starts: the state is the one the dispatch read, and the
\* only step that changes it is the commit of the attempt.
C28_SingleWriter ==
    /\ [](InAttempt => Snapshot(bot) = att.pre)
    /\ [][InAttempt =>
            /\ tick' = tick
            /\ resets_today' <= resets_today
            /\ bot' # bot => pc' = "sleep" /\ att'.order_ok /\ ~att'.raised]_vars
C28_Witness ==
    /\ pc = "buy_order" /\ job_due /\ tick.date # Some(today)
    /\ bot.last_trade_date # Some(today)

(* --------------------------- orders and state --------------------------- *)
\* C29: when create_market_sell_order has returned and execute_sell has
\* returned, the engine is flat, with entry_price and position_size cleared,
\* whatever the later connector calls did.
C29_FlatAfterSell ==
    att.op = "sell" /\ att.order_ok /\ pc = "sleep" =>
        /\ ~bot.in_position
        /\ bot.entry_price = None /\ bot.position_size = None

\* C30: the orders the exchange accepted alternate, buy, sell, buy, ...,
\* starting with a buy.
C30_Alternation ==
    hist.last_order # "none" =>
        /\ hist.prev_order # hist.last_order
        /\ hist.prev_order = "none" => hist.last_order = "buy"


(* ------------------------ entries, counters, exits ---------------------- *)
\* C31: whenever create_market_buy_order returns inside execute_buy, the
\* engine is Long when execute_buy returns: the step in which the order call
\* returns commits in_position, entry_price, position_size and the counter
\* increment, makes no further connector call and ends the attempt unraised.
C31_LongAfterBuy ==
    /\ []((att.op = "buy" /\ att.order_ok) => (bot.in_position /\ ~att.raised))
    /\ [][(pc = "buy_order" /\ att'.order_ok) =>
             /\ bot'.in_position
             /\ bot'.entry_price = Some(loc.current_price)
             /\ bot'.position_size = Some(loc.position_size_btc)
             /\ bot'.daily_trades = bot.daily_trades + 1
             /\ att'.calls = att.calls
             /\ pc' = "sleep"]_vars
C31_Witness ==
    /\ att.op = "buy" /\ att.order_ok /\ pc = "sleep" /\ bot.in_position
    /\ att.average # bot.entry_price[1]
    /\ bot.daily_trades = max_daily_trades


\* C32: in every reachable state daily_trades is the number of buy orders
\* that returned since the counter was last reset; it changes only by one, in
\* the step in which a buy order returns, or to 0 in a call of
\* reset_daily_counters: rejected, aborted and failed entries and all exits
\* leave it as it was.
C32_CounterCountsBuys ==
    /\ [](bot.daily_trades = hist.since_reset)
    /\ [][bot'.daily_trades # bot.daily_trades =>
             \/ /\ pc = "buy_order" /\ att'.order_ok
                /\ bot'.daily_trades = bot.daily_trades + 1
             \/ /\ pc \in {"run_pending", "tick"} /\ pc' # pc
                /\ bot.last_trade_date # Some(today)
                /\ bot'.daily_trades = 0]_vars
C32_Witness ==
    /\ bot.daily_trades = 1 /\ hist.since_reset = 1 /\ today > 0
    /\ resets_today = 1 /\ att.op = "buy" /\ att.raised /\ pc = "sleep"


\* A step of a run in which nothing fails: no connector call raises,
\* add_indicators does not raise, and a tick of a Long engine gets candles
\* on which check_sell_signals is true, so that it calls execute_sell.
Favourable ==
    /\ att'.raised => att.raised
    /\ pc' # "backoff"
    /\ (pc = "fetch_ohlcv" /\ bot.in_position) => pc' = "sell_balance"
\* C33: in a run that is never interrupted and in which from some tick on
\* every step is favourable, a Long engine eventually becomes Flat.
C33_ExitLiveness ==
    ([](pc # "stopped") /\ <>[][Favourable]_vars)
        => (bot.in_position ~> ~bot.in_position)


(* ------------------- sizing in binary floating point -------------------- *)
\* usdt_balance, risk_per_trade, leverage and position_size_usd are Python
\* floats: IEEE 754 doubles of 53 significant bits, every product rounded to
\* the nearest double, ties to even.
mant_dig == 53
\* A natural number of any size: its digits to the base radix = 2^radix_bits,
\* lowest first, without leading zeros; 0 is << >>.
radix_bits == 15
radix == 32768
RECURSIVE Trim(_)
Trim(x) ==
    IF x = << >> THEN x
    ELSE IF x[Len(x)] = 0 THEN Trim(SubSeq(x, 1, Len(x) - 1)) ELSE x
RECURSIVE Bits(_)
Bits(n) == IF n = 0 THEN << >> ELSE <<n % radix>> \o Bits(n \div radix)
\* The number of binary digits of x.
BitLen(x) ==
    IF x = << >> THEN 0
    ELSE radix_bits * (Len(x) - 1)
             + (CHOOSE b \in 1..radix_bits : 2^(b - 1) <= x[Len(x)] /\ x[Len(x)] < 2^b)
RECURSIVE BigAddC(_, _, _)
BigAddC(x, y, c) ==
    IF x = << >> /\ y = << >> THEN (IF c = 0 THEN << >> ELSE <<c>>)
    ELSE LET a == IF x = << >> THEN 0 ELSE x[1]
             b == IF y = << >> THEN 0 ELSE y[1]
             s == a + b + c
         IN  <<s % radix>> \o BigAddC(IF x = << >> THEN x ELSE Tail(x),
                                      IF y = << >> THEN y ELSE Tail(y),
                                      s \div radix)
BigAdd(x, y) == Trim(BigAddC(x, y, 0))
\* x * d + c for a digit d
RECURSIVE BigMulDigit(_, _, _)
BigMulDigit(x, d, c) ==
    IF x = << >> THEN (IF c = 0 THEN << >> ELSE <<c>>)
    ELSE LET p == x[1] * d + c
         IN  <<p % radix>> \o BigMulDigit(Tail(x), d, p \div radix)
RECURSIVE BigMulRaw(_, _)
BigMulRaw(x, y) ==
    IF x = << >> \/ y = << >> THEN << >>
    ELSE BigAddC(BigMulDigit(x, y[1], 0), <<0>> \o BigMulRaw(x, Tail(y)), 0)
BigMul(x, y) == Trim(BigMulRaw(x, y))
\* x * 2^k, x \div 2^k and x % 2^k
Shl(x, k) ==
    IF x = << >> THEN x
    ELSE [i \in 1..(k \div radix_bits) |-> 0]
             \o BigMulDigit(x, 2^(k % radix_bits), 0)
Shr(x, k) ==
    LET a == k \div radix_bits
        b == k % radix_bits
        y == IF a >= Len(x) THEN << >> ELSE SubSeq(x, a + 1, Len(x))
    IN  Trim([i \in 1..Len(y) |->
                 (y[i] \div 2^b)
                     + (IF i < Len(y)
                        THEN (y[i + 1] % 2^b) * 2^(radix_bits - b) ELSE 0)])
Low(x, k) ==
    LET a == k \div radix_bits
        b == k % radix_bits
    IN  IF a >= Len(x) THEN x
        ELSE Trim(SubSeq(x, 1, a) \o <<x[a + 1] % 2^b>>)
RECURSIVE BigLessFrom(_, _, _)
BigLessFrom(x, y, i) ==
    IF i = 0 THEN FALSE
    ELSE IF x[i] # y[i] THEN x[i] < y[i] ELSE BigLessFrom(x, y, i - 1)
BigLess(x, y) ==
    IF Len(x) # Len(y) THEN Len(x) < Len(y) ELSE BigLessFrom(x, y, Len(x))

\* A non-negative float: m * 2^e.  Double(hi, lo, e) is the float whose
\* significand is hi * 10^8 + lo.
Double(hi, lo, e) ==
    [m |-> BigAdd(BigMul(Bits(hi), Bits(100000000)), Bits(lo)), e |-> e]
\* The double nearest to M * 2^E, ties to even.
fl(M, E) ==
    LET s == BitLen(M) - mant_dig
    IN  IF s <= 0 THEN [m |-> M, e |-> E]
        ELSE LET q == Shr(M, s)
                 r == Low(M, s)
                 half == Shl(<<1>>, s - 1)
                 up == BigLess(half, r) \/ (r = half /\ q[1] % 2 = 1)
                 q1 == IF up THEN BigAdd(q, <<1>>) ELSE q
             IN  IF BitLen(q1) > mant_dig THEN [m |-> Shr(q1, 1), e |-> E + s + 1]
                 ELSE [m |-> q1, e |-> E + s]
\* a * b and a < b on floats.
fmul(a, b) == fl(BigMul(a.m, b.m), a.e + b.e)
flt(a, b) ==
    LET e == Min(a.e, b.e)
    IN  BigLess(Shl(a.m, a.e - e), Shl(b.m, b.e - e))

\* execute_buy: position_size_usd as the floats give it, from the balance,
\* risk_per_trade and leverage.
position_size_usd_float(usdt_balance, risk, lev) ==
    LET risk_amount == fmul(usdt_balance, risk)
        requested == fmul(risk_amount, lev)
        minimum == Double(0, min_position_size, 0)
    IN  IF flt(requested, minimum)
        THEN IF ~flt(usdt_balance, minimum) THEN minimum ELSE requested
        ELSE requested
\* execute_buy: "if position_size_usd < 10" returns without an order.
too_small(position_size_usd) == flt(position_size_usd, Double(0, 10, 0))

\* Free USDT balances: 5.0, 9.99, 10.0, 10.01, 10.28, 30.0, 40.0, 100.0 and
\* 1234.56.
FloatBalances ==
    {Double(0, 5, 0), Double(56238700, 34678907, -49), Double(0, 10, 0),
     Double(56351290, 33747333, -49), Double(57871255, 21171087, -49),
     Double(0, 30, 0), Double(0, 40, 0), Double(0, 100, 0),
     Double(54296523, 748554, -42)}
\* RISK_PER_TRADE and LEVERAGE: the defaults 0.05 and 3.0; 0.1 and 10.0; 0.05
\* and 20.0; 0.02 and 50.0; 0.5 and 2.0; 1.0 and 1.0; 0.01 and 1.0; and, with
\* a product above 1, 0.5 and 3.0.
RiskConfigs ==
    {<<Double(72057594, 3792794, -57), Double(0, 3, 0)>>,
     <<Double(72057594, 3792794, -56), Double(0, 10, 0)>>,
     <<Double(72057594, 3792794, -57), Double(0, 20, 0)>>,
     <<Double(57646075, 23034235, -58), Double(0, 50, 0)>>,
     <<Double(0, 1, -1), Double(0, 2, 0)>>,
     <<Double(0, 1, 0), Double(0, 1, 0)>>,
     <<Double(57646075, 23034235, -59), Double(0, 1, 0)>>,
     <<Double(0, 1, -1), Double(0, 3, 0)>>}

\* A call of the sizing of execute_buy on its own, before it returns.
SizingCall(usdt_balance, cfg) ==
    [fn |-> "position_size_usd", done |-> FALSE, usdt_balance |-> usdt_balance,
     risk |-> cfg[1], lev |-> cfg[2], submitted |-> FALSE,
     amount |-> Double(0, 0, 0)]
SizingInit ==
    /\ bot = InitialState
    /\ today = 0
    /\ minute = 0
    /\ job_due = FALSE
    /\ pc = "stopped"
    /\ loc = NoLocals
    /\ att = NoAttempt
    /\ tick = NoTick
    /\ buys_today = 0
    /\ resets_today = 0
    /\ hist = NoHistory
    /\ config = NoHours
    /\ call \in {SizingCall(b, c) : b \in FloatBalances, c \in RiskConfigs}
\* The sizing returns: an order of amount position_size_usd is submitted, or
\* execute_buy returns without one.
Size ==
    /\ call.fn = "position_size_usd" /\ ~call.done
    /\ LET position_size_usd ==
               position_size_usd_float(call.usdt_balance, call.risk, call.lev)
       IN  call' = [call EXCEPT !.done = TRUE,
                                !.submitted = ~too_small(position_size_usd),
                                !.amount = position_size_usd]
    /\ UNCHANGED <<bot, today, minute, job_due, pc, loc, att, tick, buys_today,
                   resets_today, hist, config>>
SpecSizing == SizingInit /\ [][Size]_vars

\* risk_per_trade * leverage <= 1, as the floats give the product.
WithinBalanceConfig(c) == ~flt(Double(0, 1, 0), fmul(c.risk, c.lev))
\* C34: when risk_per_trade * leverage <= 1, the notional of every submitted
\* buy order, clamped or not, is at most the free balance read in the attempt.
C34_NotionalWithinBalance ==
    (call.done /\ call.submitted /\ WithinBalanceConfig(call))
        => ~flt(call.usdt_balance, call.amount)


(* ------------------------- the backtest detector ------------------------ *)
\* identify_signals (visualize_strategy.py): the rows its loop visits, in a
\* series of len rows.
visited(len, i) == i >= 50 /\ i < len - 1
\* identify_signals: the buy_signal and sell_signal columns at row i, from
\* rows i - 1 and i; both columns are False on the rows the loop never visits.
identify_buy_signal(len, i, prev_row, current_row) ==
    /\ visited(len, i)
    /\ LET ema_crossover == LE(prev_row.ema20, prev_row.ema50)
                                /\ GT(current_row.ema20, current_row.ema50)
           rsi_condition == LE(prev_row.rsi, 30) /\ GT(current_row.rsi, 30)
           macd_crossover == LE(prev_row.macd, prev_row.macd_signal)
                                /\ GT(current_row.macd, current_row.macd_signal)
           bollinger_support ==
               /\ current_row.close # NaN /\ current_row.bb_low # NaN
               /\ current_row.close * 100 <= current_row.bb_low * 101
           buy_signal_count == Count(<<ema_crossover, rsi_condition,
                                       macd_crossover, bollinger_support>>)
       IN  buy_signal_count >= 2
identify_sell_signal(len, i, prev_row, current_row) ==
    /\ visited(len, i)
    /\ LET ema_crossover_sell == GE(prev_row.ema20, prev_row.ema50)
                                    /\ LT(current_row.ema20, current_row.ema50)
           rsi_condition_sell == LE(prev_row.rsi, 70) /\ GT(current_row.rsi, 70)
           macd_crossover_sell ==
               GE(prev_row.macd, prev_row.macd_signal)
                   /\ LT(current_row.macd, current_row.macd_signal)
           bollinger_resistance ==
               /\ current_row.close # NaN /\ current_row.bb_high # NaN
               /\ current_row.close * 100 >= current_row.bb_high * 99
           sell_signal_count == Count(<<ema_crossover_sell, rsi_condition_sell,
                                        macd_crossover_sell, bollinger_resistance>>)
       IN  sell_signal_count >= 2

\* Series lengths, and the rows looked at: the last row without a full EMA
\* window before it, the first the loop visits, one in the middle, the last
\* but one and the last.
SeriesLens == {51, 52, 80}
SeriesRows(len) == {i \in {49, 50, 60, len - 2, len - 1} : i >= 1 /\ i < len}
\* Rows i - 1 and i of a series, before add_indicators.
RowPairs ==
    {<<Row(e[1], 100, r[1], m[1], 0, b[1], b[2], 100),
       Row(e[2], 100, r[2], m[2], 0, b[1], b[2], 100)>> :
         e \in EmaPairs, r \in RsiPairs, m \in MacdPairs, b \in Bands(100)}
\* identify_signals on a series of len rows and check_buy_signals on its
\* prefix that ends at row i, before they return.
BacktestCall(len, i, rows) ==
    [fn |-> "identify_signals", done |-> FALSE, len |-> len, i |-> i,
     prev |-> add_indicators(rows[1], i - 1), last |-> add_indicators(rows[2], i),
     buy_signal |-> FALSE, sell_signal |-> FALSE, live |-> FALSE]
BacktestInit ==
    /\ bot = InitialState
    /\ today = 0
    /\ minute = 0
    /\ job_due = FALSE
    /\ pc = "stopped"
    /\ loc = NoLocals
    /\ att = NoAttempt
    /\ tick = NoTick
    /\ buys_today = 0
    /\ resets_today = 0
    /\ hist = NoHistory
    /\ config = NoHours
    /\ call \in {BacktestCall(n, i, rows) :
                    n \in SeriesLens, i \in 1..80, rows \in RowPairs}
    /\ call.i \in SeriesRows(call.len)
\* Both detectors return.
IdentifySignals ==
    /\ call.fn = "identify_signals" /\ ~call.done
    /\ call' = [call EXCEPT
                   !.done = TRUE,
                   !.buy_signal =
                       identify_buy_signal(call.len, call.i, call.prev, call.last),
                   !.sell_signal =
                       identify_sell_signal(call.len, call.i, call.prev, call.last),
                   !.live = check_buy_signals(
                                [is_none |-> FALSE, len |-> call.i + 1,
                                 prev |-> call.prev, last |-> call.last])]
    /\ UNCHANGED <<bot, today, minute, job_due, pc, loc, att, tick, buys_today,
                   resets_today, hist, config>>
SpecBacktestSignals == BacktestInit /\ [][IdentifySignals]_vars

\* C35: for every row i >= 50 of an indicator-annotated series,
\* identify_signals marks buy_signal at row i iff check_buy_signals is true
\* on the prefix of the series that ends at row i.
C35_DetectorsAgree ==
    (call.done /\ call.i >= 50) => (call.buy_signal <=> call.live)


(* ------------------------------ the backtest ---------------------------- *)
\* backtest_strategy(df, ...) as main() of visualize_strategy.py calls it:
\* initial_capital = 100 (in 10^-4 USD), risk_per_trade = 0.02, leverage =
\* 3.0, take_profit = 0.03 and stop_loss = 0.01 (in percent).
initial_capital == 1000000
backtest_risk_per_trade == 2
backtest_leverage == 3
backtest_take_profit == 3
backtest_stop_loss == 1

\* A row of df: its close and the columns identify_signals wrote.  Closes
\* around an entry at 100: under its stop-loss, between the thresholds, over
\* its take-profit.
BarCloses == {97, 100, 104}
Bars ==
    {[close |-> c, buy_signal |-> s[1], sell_signal |-> s[2]] :
        c \in BarCloses, s \in {<<FALSE, FALSE>>, <<TRUE, FALSE>>, <<FALSE, TRUE>>}}
Series == UNION {[1..n -> Bars] : n \in 0..MaxBars}

\* The call of backtest_strategy before its loop: row i (from 1; the loop
\* starts at the second row) is the next to visit, capital is the column
\* results['capital'], trades the list of trades; opened counts the entries.
BacktestRun(df) ==
    [fn |-> "backtest_strategy", done |-> FALSE, none |-> FALSE, df |-> df, i |-> 2,
     capital |-> [k \in 1..Len(df) |-> initial_capital],
     in_position |-> FALSE, entry_price |-> 0, entry_date |-> 0,
     position_size |-> 0, trades |-> << >>, opened |-> 0]

\* Which exit of an open position the row at current_price takes.
exit_reason(c, current_price, sell_signal) ==
    IF current_price * 100 >= c.entry_price * (100 + backtest_take_profit)
    THEN "take_profit"
    ELSE IF current_price * 100 <= c.entry_price * (100 - backtest_stop_loss)
    THEN "stop_loss"
    ELSE IF sell_signal THEN "sell_signal" ELSE "none"
\* The trade an exit on row exit_date records.
Trade(c, exit_date, exit_price, reason) ==
    [entry_date |-> c.entry_date, exit_date |-> exit_date,
     entry_price |-> c.entry_price, exit_price |-> exit_price,
     position_size |-> c.position_size,
     pnl |-> c.position_size * (exit_price - c.entry_price),
     exit_reason |-> reason]
\* One iteration of the loop, on row c.i.
backtest_bar(c) ==
    LET current_date == c.i
        prev_date == c.i - 1
        current_price == c.df[current_date].close
        carried == [c.capital EXCEPT ![current_date] = c.capital[prev_date]]
    IN  IF c.in_position
        THEN LET reason == exit_reason(c, current_price,
                                       c.df[current_date].sell_signal)
                 trade == Trade(c, current_date, current_price, reason)
             IN  IF reason = "none"
                 THEN [c EXCEPT !.capital = carried, !.i = @ + 1]
                 ELSE [c EXCEPT
                          !.capital = [carried EXCEPT ![current_date] = @ + trade.pnl],
                          !.trades = Append(@, trade),
                          !.in_position = FALSE, !.i = @ + 1]
        ELSE IF c.df[current_date].buy_signal
        THEN LET capital == c.capital[prev_date]
                 risk_amount_x100 == capital * backtest_risk_per_trade
                 position_size_usd == (risk_amount_x100 * backtest_leverage) \div 100
             IN  [c EXCEPT !.capital = carried,
                           !.position_size = position_size_usd \div current_price,
                           !.in_position = TRUE, !.entry_price = current_price,
                           !.entry_date = current_date, !.i = @ + 1]
        ELSE [c EXCEPT !.capital = carried, !.i = @ + 1]
\* After the loop: "Si aun estamos en posicion al final del periodo".
backtest_close_drops_trade(c) == c
backtest_close(c) ==
    IF c.in_position
    THEN LET last_date == Len(c.df)
             trade == Trade(c, last_date, c.df[last_date].close, "end_of_period")
         IN  [c EXCEPT !.capital[last_date] = @ + trade.pnl,
                       !.trades = Append(@, trade)]
    ELSE c

BacktestRunInit ==
    /\ bot = InitialState
    /\ today = 0
    /\ minute = 0
    /\ job_due = FALSE
    /\ pc = "stopped"
    /\ loc = NoLocals
    /\ att = NoAttempt
    /\ tick = NoTick
    /\ buys_today = 0
    /\ resets_today = 0
    /\ hist = NoHistory
    /\ config = NoHours
    /\ call \in {BacktestRun(df) : df \in Series}
\* One iteration of "for i in range(1, len(df))".
BacktestBar ==
    /\ call.fn = "backtest_strategy" /\ ~call.done /\ call.i <= Len(call.df)
    /\ LET c == backtest_bar(call)
       IN  call' = [c EXCEPT !.opened = IF c.entry_date # call.entry_date
                                        THEN @ + 1 ELSE @]
    /\ UNCHANGED <<bot, today, minute, job_due, pc, loc, att, tick, buys_today,
                   resets_today, hist, config>>
\* backtest_strategy returns: (None, None) for an empty df, or results and
\* the trades after the position still open was closed.
BacktestEnd ==
    /\ call.fn = "backtest_strategy" /\ ~call.done /\ call.i > Len(call.df)
    /\ call' = IF Len(call.df) = 0
               THEN [call EXCEPT !.done = TRUE, !.none = TRUE]
               ELSE [backtest_close(call) EXCEPT !.done = TRUE]
    /\ UNCHANGED <<bot, today, minute, job_due, pc, loc, att, tick, buys_today,
                   resets_today, hist, config>>
SpecBacktest == BacktestRunInit /\ [][BacktestBar \/ BacktestEnd]_vars

\* The sum of pnl over a list of trades.
RECURSIVE SumPnl(_)
SumPnl(trades) ==
    IF trades = << >> THEN 0 ELSE trades[1].pnl + SumPnl(Tail(trades))
\* C36: every opened position is recorded as exactly one trade, a position
\* still open after the last row being closed at the last close; no position
\* is opened while one is open; and the final capital is the initial capital
\* plus the sum of pnl over the recorded trades.
C36_Accounting ==
    /\ [](Len(call.trades)
              + (IF call.in_position /\ ~call.done THEN 1 ELSE 0) = call.opened)
    /\ []((call.done /\ ~call.none) =>
              /\ call.capital[Len(call.df)] = initial_capital + SumPnl(call.trades)
              /\ \A k \in 1..Len(call.trades) :
                    call.trades[k].exit_reason = "end_of_period" =>
                        /\ k = Len(call.trades)
                        /\ call.trades[k].exit_price = call.df[Len(call.df)].close)
    /\ [][call'.opened > call.opened => ~call.in_position]_vars
C36_Witness ==
    /\ call.done /\ Len(call.trades) = 2 /\ call.opened = 2
    /\ call.trades[1].exit_reason = "stop_loss" /\ call.trades[1].pnl < 0
    /\ call.trades[2].exit_reason = "end_of_period"
    /\ call.capital[Len(call.df)] < initial_capital


(* ------------------- test_order_execution_real -------------------------- *)
\* test_bot_actions.py.  Amounts are in 10^-6 BTC, costs and USDT balances in
\* 10^-6 USDT, prices in whole USDT.
\* "if cost > 20": the cap, 20 USDT.
max_test_cost == 20000000
\* The amount argument: 0.0001 BTC (the default, and what main passes) and
\* 0.001 BTC.
TestAmounts == {100, 1000}
\* balance_before['free']: with 'USDT' (0, -1, 5, 15, 20 or 100 USDT) or
\* without; raise: fetch_balance raised, or the answer has no 'free'.
TestBalances ==
    {[raise |-> FALSE, usdt |-> TRUE, free |-> v] :
        v \in {0, -1000000, 5000000, 15000000, 20000000, 100000000}}
        \cup {[raise |-> r, usdt |-> FALSE, free |-> 0] : r \in BOOLEAN}
TestTickers ==
    {[raise |-> FALSE, last |-> p] : p \in {0, 40000, 100000, 250000}}
        \cup {[raise |-> TRUE, last |-> 0]}
\* The buy order answer: with or without an 'amount', the amount filled.
TestOrders ==
    {[raise |-> FALSE, amount |-> a] : a \in {None, Some(80)}}
        \cup {[raise |-> TRUE, amount |-> None]}
\* balance_after_buy['free']: with 'BTC' or without.
TestBtcBalances ==
    {[raise |-> FALSE, btc |-> b] : b \in {None, Some(50), Some(5000)}}
        \cup {[raise |-> TRUE, btc |-> None]}

\* "Verificar si hay fondos suficientes": no order without a USDT balance
\* above 0.
no_test_funds(balance) == ~balance.usdt \/ balance.free <= 0
\* "Calcular el costo total y verificar que sea lo suficientemente pequeno":
\* the amount and the cost after the cap.
capped_never(amount, current_price) ==
    [amount |-> amount, cost |-> amount * current_price]
capped(amount, current_price) ==
    LET cost == amount * current_price
    IN  IF cost > max_test_cost
        THEN [amount |-> max_test_cost \div current_price, cost |-> max_test_cost]
        ELSE [amount |-> amount, cost |-> cost]
\* "Verificar que haya fondos suficientes".
insufficient(usdt_balance, cost) == usdt_balance < cost

\* A call of test_order_execution_real, blocked in its first fetch_balance.
\* at: the call it is blocked in; answer: what fetch_balance gave at the
\* start; buy_orders and order_cost: the buy orders submitted and the cost
\* of the last one; result: what the function returned.
TestCall(bitget, amount) ==
    [fn |-> "test_order_execution_real", at |-> "fetch_balance",
     bitget |-> bitget, amount |-> amount, usdt_balance |-> 0, cost |-> 0,
     buy_executed |-> FALSE, sell_executed |-> FALSE, result |-> None,
     answer |-> None, buy_orders |-> 0, order_cost |-> None]
Returned(c, value) == [c EXCEPT !.at = "returned", !.result = Some(value)]
TestInit ==
    /\ bot = InitialState
    /\ today = 0
    /\ minute = 0
    /\ job_due = FALSE
    /\ pc = "stopped"
    /\ loc = NoLocals
    /\ att = NoAttempt
    /\ tick = NoTick
    /\ buys_today = 0
    /\ resets_today = 0
    /\ hist = NoHistory
    /\ config = NoHours
    /\ call \in {TestCall(b, a) : b \in BOOLEAN, a \in TestAmounts}
\* fetch_balance returns: the balance check, up to the fetch_ticker call.
TestFetchBalance ==
    /\ call.fn = "test_order_execution_real" /\ call.at = "fetch_balance"
    /\ \E balance \in TestBalances :
        LET c == [call EXCEPT !.answer = Some(balance)]
        IN  call' = IF balance.raise \/ no_test_funds(balance)
                    THEN Returned(c, FALSE)
                    ELSE [c EXCEPT !.at = "fetch_ticker",
                                   !.usdt_balance = balance.free]
    /\ UNCHANGED <<bot, today, minute, job_due, pc, loc, att, tick, buys_today,
                   resets_today, hist, config>>
\* fetch_ticker returns: the cap and the funds check, up to the
\* create_market_buy_order call.
TestFetchTicker ==
    /\ call.fn = "test_order_execution_real" /\ call.at = "fetch_ticker"
    /\ \E ticker \in TestTickers :
        LET sized == capped(call.amount, ticker.last)
        IN  call' = IF ticker.raise THEN Returned(call, FALSE)
                    ELSE IF insufficient(call.usdt_balance, sized.cost)
                    THEN Returned(call, FALSE)
                    ELSE [call EXCEPT !.at = "buy_order",
                                      !.amount = sized.amount,
                                      !.cost = sized.cost,
                                      !.buy_orders = @ + 1,
                                      !.order_cost = Some(sized.cost)]
    /\ UNCHANGED <<bot, today, minute, job_due, pc, loc, att, tick, buys_today,
                   resets_today, hist, config>>
\* create_market_buy_order returns, and the sleep of 3 seconds, up to the
\* second fetch_balance call.
TestBuyOrder ==
    /\ call.fn = "test_order_execution_real" /\ call.at = "buy_order"
    /\ \E order \in TestOrders :
        call' = IF order.raise THEN Returned(call, FALSE)
                ELSE [call EXCEPT !.at = "balance_after_buy",
                                  !.buy_executed = TRUE,
                                  !.amount = IF order.amount # None
                                             THEN order.amount[1] ELSE @]
    /\ UNCHANGED <<bot, today, minute, job_due, pc, loc, att, tick, buys_today,
                   resets_today, hist, config>>
\* The second fetch_balance returns, up to the create_market_sell_order call.
TestBalanceAfterBuy ==
    /\ call.fn = "test_order_execution_real" /\ call.at = "balance_after_buy"
    /\ \E balance \in TestBtcBalances :
        call' = IF balance.raise THEN Returned(call, FALSE)
                ELSE [call EXCEPT !.at = "sell_order",
                                  !.amount = IF balance.btc # None
                                                  /\ balance.btc[1] < @
                                             THEN balance.btc[1] ELSE @]
    /\ UNCHANGED <<bot, today, minute, job_due, pc, loc, att, tick, buys_today,
                   resets_today, hist, config>>
\* create_market_sell_order returns, up to the second fetch_ticker call.
TestSellOrder ==
    /\ call.fn = "test_order_execution_real" /\ call.at = "sell_order"
    /\ \E raised \in BOOLEAN :
        call' = IF raised THEN Returned(call, FALSE)
                ELSE [call EXCEPT !.at = "exit_ticker", !.sell_executed = TRUE]
    /\ UNCHANGED <<bot, today, minute, job_due, pc, loc, att, tick, buys_today,
                   resets_today, hist, config>>
\* The second fetch_ticker returns, up to the last fetch_balance call.
TestExitTicker ==
    /\ call.fn = "test_order_execution_real" /\ call.at = "exit_ticker"
    /\ \E raised \in BOOLEAN :
        call' = IF raised THEN Returned(call, FALSE)
                ELSE [call EXCEPT !.at = "balance_final"]
    /\ UNCHANGED <<bot, today, minute, job_due, pc, loc, att, tick, buys_today,
                   resets_today, hist, config>>
\* The last fetch_balance returns, and the function with it.
TestBalanceFinal ==
    /\ call.fn = "test_order_execution_real" /\ call.at = "balance_final"
    /\ \E raised \in BOOLEAN :
        call' = IF raised THEN Returned(call, FALSE)
                ELSE Returned(call, call.buy_executed /\ call.sell_executed)
    /\ UNCHANGED <<bot, today, minute, job_due, pc, loc, att, tick, buys_today,
                   resets_today, hist, config>>
SpecRealOrders ==
    TestInit /\ [][\/ TestFetchBalance \/ TestFetchTicker \/ TestBuyOrder
                   \/ TestBalanceAfterBuy \/ TestSellOrder \/ TestExitTicker
                   \/ TestBalanceFinal]_vars

\* C37: test_order_execution_real never submits a buy order whose cost is
\* over 20 USDT or over the free USDT read at its start, and submits none
\* when that balance is 0 or less, is absent, or could not be read.
C37_RealOrderCapped ==
    /\ call.buy_orders > 0 =>
            /\ call.order_cost[1] <= 20 * 1000000
            /\ call.answer # None /\ ~call.answer[1].raise /\ call.answer[1].usdt
            /\ call.answer[1].free > 0
            /\ call.order_cost[1] <= call.answer[1].free
    /\ call.buy_orders <= 1
C37_Witness ==
    /\ call.buy_orders = 1 /\ call.order_cost = Some(20 * 1000000)
    /\ call.answer[1].free = 20 * 1000000 /\ call.amount = 80
    /\ call.at = "buy_order"


(* ----------------------------- transfer_funds --------------------------- *)
\* transfer_otc_to_spot.py.  Amounts and balances are in cents.
\* The amount argument: None (everything), or -1, 0, 5, 10 or 50.
TransferAmounts == {None, Some(-100), Some(0), Some(500), Some(1000), Some(5000)}
\* fetch_balance({'type': from_account}): has: currency is in the answer;
\* free: from_balance[currency]['free']; raise: the call, or the reading of a
\* malformed answer, raised.
TransferBalances ==
    {[raise |-> FALSE, has |-> TRUE, free |-> v] : v \in {-100, 0, 500, 1000, 2500}}
        \cup {[raise |-> r, has |-> FALSE, free |-> 0] : r \in BOOLEAN}
\* The answer of private_post_spot_v1_wallet_transfer: its 'code', if any.
TransferAnswers ==
    {[raise |-> FALSE, code |-> c] : c \in {None, Some("00000"), Some("40001")}}
        \cup {[raise |-> TRUE, code |-> None]}
FromAccounts == {"otc", "swap", "earn"}

\* account_map.get(account, account)
account_map(account) ==
    CASE account = "spot" -> "spot"
      [] account = "swap" -> "mix_usdt"
      [] account = "future" -> "mix_usd"
      [] account = "margin" -> "margin"
      [] account = "otc" -> "otc"
      [] account = "funding" -> "funding"
      [] OTHER -> account
\* "No hay balance de {currency} disponible".
no_source_funds(from_balance) == ~from_balance.has \/ from_balance.free <= 0
\* The amount to transfer, from the argument and the free balance.
transfer_amount_as_asked(amount, available_amount) ==
    IF amount = None THEN available_amount ELSE amount[1]
transfer_amount(amount, available_amount) ==
    IF amount = None THEN available_amount
    ELSE IF amount[1] > available_amount THEN available_amount
    ELSE amount[1]
\* str(amount): the sign and the decimal digits; and the number a string
\* of this form denotes.
RECURSIVE Digits(_)
Digits(n) == IF n < 10 THEN <<n>> ELSE Digits(n \div 10) \o <<n % 10>>
str(n) == [minus |-> n < 0, digits |-> Digits(Abs(n))]
RECURSIVE DigitsValue(_)
DigitsValue(d) ==
    IF d = << >> THEN 0 ELSE 10 * DigitsValue(SubSeq(d, 1, Len(d) - 1)) + d[Len(d)]
Denoted(s) == IF s.minus THEN -DigitsValue(s.digits) ELSE DigitsValue(s.digits)

\* A call of transfer_funds, blocked in fetch_balance.  at: the call it is
\* blocked in; answer: what fetch_balance gave; transfers and params: the
\* transfer calls made and the parameters of the last one; result: what the
\* function returned.
TransferCall(from_account, amount) ==
    [fn |-> "transfer_funds", at |-> "fetch_balance", from_account |-> from_account,
     to_account |-> "spot", asked |-> amount, answer |-> None, transfers |-> 0,
     params |-> None, result |-> None]
TransferInit ==
    /\ bot = InitialState
    /\ today = 0
    /\ minute = 0
    /\ job_due = FALSE
    /\ pc = "stopped"
    /\ loc = NoLocals
    /\ att = NoAttempt
    /\ tick = NoTick
    /\ buys_today = 0
    /\ resets_today = 0
    /\ hist = NoHistory
    /\ config = NoHours
    /\ call \in {TransferCall(f, a) : f \in FromAccounts, a \in TransferAmounts}
\* fetch_balance returns: the balance check and the amount, up to the
\* transfer call.
TransferFetchBalance ==
    /\ call.fn = "transfer_funds" /\ call.at = "fetch_balance"
    /\ \E from_balance \in TransferBalances :
        LET c == [call EXCEPT !.answer = Some(from_balance)]
            amount == transfer_amount(call.asked, from_balance.free)
        IN  call' = IF from_balance.raise \/ no_source_funds(from_balance)
                    THEN [c EXCEPT !.at = "returned", !.result = Some(FALSE)]
                    ELSE [c EXCEPT
                             !.at = "transfer", !.transfers = @ + 1,
                             !.params = Some([coin |-> "USDT",
                                              amount |-> str(amount),
                                              from |-> account_map(c.from_account),
                                              to |-> account_map(c.to_account)])]
    /\ UNCHANGED <<bot, today, minute, job_due, pc, loc, att, tick, buys_today,
                   resets_today, hist, config>>
\* private_post_spot_v1_wallet_transfer returns.
TransferPost ==
    /\ call.fn = "transfer_funds" /\ call.at = "transfer"
    /\ \E result \in TransferAnswers :
        call' = [call EXCEPT
                    !.at = "returned",
                    !.result = Some(~result.raise /\ result.code = Some("00000"))]
    /\ UNCHANGED <<bot, today, minute, job_due, pc, loc, att, tick, buys_today,
                   resets_today, hist, config>>
SpecTransfer == TransferInit /\ [][TransferFetchBalance \/ TransferPost]_vars

\* C38: transfer_funds never requests more than the free balance of the
\* source account it read, a larger or unspecified amount being replaced by
\* that balance; it makes no transfer call and returns False when the free
\* balance is 0 or less, the currency is absent or the balance fetch fails.
C38_TransferWithinBalance ==
    /\ call.transfers > 0 =>
            /\ call.transfers = 1
            /\ ~call.answer[1].raise /\ call.answer[1].has
            /\ call.answer[1].free > 0
            /\ Denoted(call.params[1].amount) <= call.answer[1].free
            /\ (call.asked = None \/ call.asked[1] > call.answer[1].free)
                    => Denoted(call.params[1].amount) = call.answer[1].free
    /\ (/\ call.answer # None
        /\ \/ call.answer[1].raise \/ ~call.answer[1].has
           \/ call.answer[1].free <= 0)
            => call.transfers = 0 /\ call.result = Some(FALSE)
C38_Witness ==
    /\ call.transfers = 1 /\ call.asked = Some(5000)
    /\ call.answer[1].free = 2500 /\ Denoted(call.params[1].amount) = 2500
    /\ call.result = Some(TRUE)

====
